---- MODULE Spec2Model ----
(***************************************************************************)
(* Model of src/app.py: one run of the Streamlit script main(), i.e. the   *)
(* single-image tab (lines 104-158) followed by the batch tab (lines       *)
(* 160-260), with process_single_image (17-25) and create_zip_file (27-45).*)
(* File names are sequences of tokens, "." being the dot character.  An    *)
(* image is represented by its PIL colour mode.  The external calls        *)
(* Image.open, rembg.remove and Image.save either return or raise; which   *)
(* one happens is chosen nondeterministically.                             *)
(***************************************************************************)
EXTENDS Integers, Sequences, FiniteSets, TLC

\* ---- bounds and input domains ----
MaxFiles == 3

Names == { <<"a", ".", "png">>, <<"a", ".", "jpg">>, <<"b", ".", "png">> }
SingleNames == { <<"a", ".", "b", ".", "png">> }
InModes == {"RGB", "P"}
OutModes == {"RGBA", "RGB"}
None == "None"
Raise == "raise"

RECURSIVE SeqsUpTo(_, _)
SeqsUpTo(S, n) ==
  IF n = 0 THEN { <<>> }
  ELSE LET shorter == SeqsUpTo(S, n - 1)
       IN  shorter \cup { Append(s, x) : s \in { t \in shorter : Len(t) = n - 1 }, x \in S }

VARIABLES
  pc,                 \* position in main()
  uploaded_file,      \* tab 1 uploader: <<>> for None, <<name>> for a file
  uploaded_files,     \* tab 2 uploader: list of file names
  clicked,            \* st.button("Process All Images") returned True
  i,                  \* loop index of the batch loop (0-based)
  original_image,     \* local original_image: None or the mode of the last opened image
  processed_images,   \* list of result modes, None for a failed item
  original_filenames,
  failed_files,
  successful_images,
  successful_filenames,
  progress_log,       \* progress_bar.progress / status_text.text calls of the loop
  errors,             \* st.error calls
  downloads,          \* st.download_button calls
  zip_called,         \* create_zip_file was entered
  zip_buffer,         \* the archive returned by create_zip_file
  opened,             \* indices passed to Image.open in the loop, in call order
  removed             \* calls of rembg.remove: [idx, arg, ret]; idx = -1 for tab 1

vars == << pc, uploaded_file, uploaded_files, clicked, i, original_image,
           processed_images, original_filenames, failed_files,
           successful_images, successful_filenames, progress_log, errors,
           downloads, zip_called, zip_buffer, opened, removed >>

\* ---- pure helpers ----
Min(a, b) == IF a < b THEN a ELSE b

\* str.rfind('.') : 1-based position of the last dot, 0 when there is none
RFindDot(p) ==
  LET dots == { k \in 1..Len(p) : p[k] = "." }
  IN  IF dots = {} THEN 0 ELSE CHOOSE k \in dots : \A m \in dots : m <= k

\* os.path.splitext(p)[0] for a name without directory separators:
\* the extension starts at the last dot unless only dots precede it
SplitextRoot(p) ==
  LET d == RFindDot(p)
  IN  IF d > 0 /\ \E k \in 1..(d - 1) : p[k] # "."
      THEN SubSeq(p, 1, d - 1)
      ELSE p

\* name.split('.')[0] : everything before the first dot
SplitDot0(p) ==
  LET dots == { k \in 1..Len(p) : p[k] = "." }
  IN  IF dots = {} THEN p
      ELSE SubSeq(p, 1, (CHOOSE k \in dots : \A m \in dots : k <= m) - 1)

\* f"no_bg_{name_without_ext}.png"
OutputFilename(original_filename) ==
  <<"no_bg_">> \o SplitextRoot(original_filename) \o <<".", "png">>

HasAlpha(mode) == mode \in {"RGBA", "LA"}

\* process_single_image(image) where remove() answers ret (a mode, or Raise):
\* what remove is called with and what the function returns
ProcessSingleImageNoConvert(image, ret) ==
  [arg |-> image, ret |-> ret]

ProcessSingleImage(image, ret) ==
  LET converted == IF image # "RGB" THEN "RGB" ELSE image
  IN  [arg |-> converted, ret |-> ret]

\* create_zip_file: one writestr per (image, filename) pair, in order;
\* zipfile appends an entry even when the name is already present
CreateZipFile(images, filenames) ==
  [k \in 1..Min(Len(images), Len(filenames)) |->
      [filename |-> OutputFilename(filenames[k]), image |-> images[k]]]

\* lines 218-221: keep the pairs whose image is not None
RECURSIVE KeepSuccessful(_, _)
KeepSuccessful(images, filenames) ==
  IF images = <<>> \/ filenames = <<>> THEN <<>>
  ELSE LET rest == KeepSuccessful(Tail(images), Tail(filenames))
       IN  IF Head(images) # None
           THEN << <<Head(images), Head(filenames)>> >> \o rest
           ELSE rest

\* line 172: truthiness of the uploaded list
FilesSelectedAlways(files) == TRUE

FilesSelected(files) == files # <<>>

\* line 223: truthiness of successful_images
HasSuccessAlways(images) == TRUE

HasSuccess(images) == images # <<>>

\* lines 196-198
ProgressCountZeroBased(idx) == idx

ProgressCount(idx) == idx + 1

StatusTextFirstName(idx, files) ==
  [count |-> ProgressCount(idx), total |-> Len(files), name |-> files[1]]

StatusText(idx, files) ==
  [count |-> ProgressCount(idx), total |-> Len(files), name |-> files[idx + 1]]

\* ---- initial state ----
Init ==
  /\ pc = "tab1"
  /\ uploaded_file \in { <<>> } \cup { <<n>> : n \in SingleNames }
  /\ uploaded_files \in SeqsUpTo(Names, MaxFiles)
  /\ clicked = FALSE
  /\ i = 0
  /\ original_image = None
  /\ processed_images = <<>>
  /\ original_filenames = <<>>
  /\ failed_files = <<>>
  /\ successful_images = <<>>
  /\ successful_filenames = <<>>
  /\ progress_log = <<>>
  /\ errors = <<>>
  /\ downloads = <<>>
  /\ zip_called = FALSE
  /\ zip_buffer = [built |-> FALSE, entries |-> <<>>]
  /\ opened = <<>>
  /\ removed = <<>>

BatchVars == << clicked, i, processed_images, original_filenames, failed_files,
                successful_images, successful_filenames, progress_log,
                zip_called, zip_buffer, opened >>

\* ---- tab 1: single image (lines 104-158) ----
SingleNoFile ==
  /\ pc = "tab1"
  /\ uploaded_file = <<>>
  /\ pc' = "tab2"
  /\ UNCHANGED << uploaded_file, uploaded_files, original_image, errors,
                  downloads, removed >>
  /\ UNCHANGED BatchVars

\* line 121: Image.open outside any try
SingleOpen ==
  /\ pc = "tab1"
  /\ uploaded_file # <<>>
  /\ \/ \E mode \in InModes :
          /\ original_image' = mode
          /\ pc' = "single_process"
     \/ /\ original_image' = original_image
        /\ pc' = "uncaught"
  /\ UNCHANGED << uploaded_file, uploaded_files, errors, downloads, removed >>
  /\ UNCHANGED BatchVars

\* lines 137-158: try: process, show, save, download; except: st.error
SingleProcess ==
  /\ pc = "single_process"
  /\ \E ret \in OutModes \cup {Raise}, saveOk \in BOOLEAN :
       LET call == ProcessSingleImage(original_image, ret)
           name == uploaded_file[1]
       IN  /\ removed' = Append(removed, [idx |-> -1, arg |-> call.arg, ret |-> ret])
           /\ IF call.ret # Raise /\ saveOk
              THEN /\ downloads' = Append(downloads,
                         [kind |-> "png",
                          file_name |-> <<"no_bg_">> \o SplitDot0(name) \o <<".", "png">>,
                          image |-> call.ret])
                   /\ errors' = errors
              ELSE /\ errors' = Append(errors, [kind |-> "single", name |-> name])
                   /\ downloads' = downloads
  /\ pc' = "tab2"
  /\ UNCHANGED << uploaded_file, uploaded_files, original_image >>
  /\ UNCHANGED BatchVars

\* ---- tab 2: batch (lines 160-260) ----
\* lines 172-191: nothing happens unless files are selected and the button is pressed
BatchTab ==
  /\ pc = "tab2"
  /\ \E button \in BOOLEAN :
       IF FilesSelected(uploaded_files) /\ button
       THEN /\ clicked' = TRUE
            /\ processed_images' = <<>>
            /\ original_filenames' = <<>>
            /\ failed_files' = <<>>
            /\ i' = 0
            /\ pc' = "loop_head"
       ELSE /\ pc' = "done"
            /\ UNCHANGED << clicked, processed_images, original_filenames,
                            failed_files, i >>
  /\ UNCHANGED << uploaded_file, uploaded_files, original_image,
                  successful_images, successful_filenames, progress_log,
                  errors, downloads, zip_called, zip_buffer, opened, removed >>

\* lines 193-198: next item, progress bar and status text
LoopProgress ==
  /\ pc = "loop_head"
  /\ i < Len(uploaded_files)
  /\ progress_log' = Append(progress_log, StatusText(i, uploaded_files))
  /\ pc' = "loop_body"
  /\ UNCHANGED << uploaded_file, uploaded_files, clicked, i, original_image,
                  processed_images, original_filenames, failed_files,
                  successful_images, successful_filenames, errors, downloads,
                  zip_called, zip_buffer, opened, removed >>

\* lines 207-212: the except branch of the loop body
ExceptHandlerBreak(name) ==
  /\ errors' = Append(errors, [kind |-> "item", name |-> name])
  /\ failed_files' = Append(failed_files, name)
  /\ processed_images' = Append(processed_images, None)
  /\ original_filenames' = Append(original_filenames, name)
  /\ i' = Len(uploaded_files)
  /\ pc' = "loop_head"

ExceptHandlerNoFailedName(name) ==
  /\ errors' = Append(errors, [kind |-> "item", name |-> name])
  /\ failed_files' = failed_files
  /\ processed_images' = Append(processed_images, None)
  /\ original_filenames' = Append(original_filenames, name)
  /\ i' = i + 1
  /\ pc' = "loop_head"

ExceptHandlerNoPlaceholderName(name) ==
  /\ errors' = Append(errors, [kind |-> "item", name |-> name])
  /\ failed_files' = Append(failed_files, name)
  /\ processed_images' = Append(processed_images, None)
  /\ original_filenames' = original_filenames
  /\ i' = i + 1
  /\ pc' = "loop_head"

ExceptHandler(name) ==
  /\ errors' = Append(errors, [kind |-> "item", name |-> name])
  /\ failed_files' = Append(failed_files, name)
  /\ processed_images' = Append(processed_images, None)
  /\ original_filenames' = Append(original_filenames, name)
  /\ i' = i + 1
  /\ pc' = "loop_head"

\* lines 200-212: Image.open, process_single_image, the appends, or the except branch
LoopBody ==
  /\ pc = "loop_body"
  /\ opened' = Append(opened, i)
  /\ LET name == uploaded_files[i + 1]
     IN  \/ \* Image.open raises
            /\ ExceptHandler(name)
            /\ UNCHANGED << original_image, removed >>
         \/ \E mode \in InModes, ret \in OutModes \cup {Raise} :
              LET call == ProcessSingleImage(mode, ret)
              IN  /\ original_image' = mode
                  /\ removed' = Append(removed, [idx |-> i, arg |-> call.arg, ret |-> ret])
                  /\ IF call.ret = Raise
                     THEN ExceptHandler(name)
                     ELSE /\ processed_images' = Append(processed_images, call.ret)
                          /\ original_filenames' = Append(original_filenames, name)
                          /\ i' = i + 1
                          /\ pc' = "loop_head"
                          /\ UNCHANGED << errors, failed_files >>
  /\ UNCHANGED << uploaded_file, uploaded_files, clicked, successful_images,
                  successful_filenames, progress_log, downloads, zip_called,
                  zip_buffer >>

\* lines 214-230 and 259-260: filter the placeholders, then branch
FilterSuccessful ==
  /\ pc = "loop_head"
  /\ i >= Len(uploaded_files)
  /\ LET kept == KeepSuccessful(processed_images, original_filenames)
     IN  /\ successful_images' = [k \in 1..Len(kept) |-> kept[k][1]]
         /\ successful_filenames' = [k \in 1..Len(kept) |-> kept[k][2]]
  /\ IF HasSuccess(successful_images')
     THEN /\ pc' = "package"
          /\ errors' = errors
     ELSE /\ pc' = "done"
          /\ errors' = Append(errors, [kind |-> "zero", name |-> <<>>])
  /\ UNCHANGED << uploaded_file, uploaded_files, clicked, i, original_image,
                  processed_images, original_filenames, failed_files,
                  progress_log, downloads, zip_called, zip_buffer, opened, removed >>

\* lines 232-257: create_zip_file (a failing save is not caught), download button
Package ==
  /\ pc = "package"
  /\ zip_called' = TRUE
  /\ \E failAt \in 0..Len(successful_images) :
       IF failAt = 0
       THEN /\ zip_buffer' = [built |-> TRUE,
                              entries |-> CreateZipFile(successful_images, successful_filenames)]
            /\ downloads' = Append(downloads,
                  [kind |-> "zip",
                   file_name |-> <<"background_removed_", "timestamp", ".", "zip">>,
                   image |-> None])
            /\ pc' = "done"
       ELSE /\ pc' = "uncaught"
            /\ UNCHANGED << zip_buffer, downloads >>
  /\ UNCHANGED << uploaded_file, uploaded_files, clicked, i, original_image,
                  processed_images, original_filenames, failed_files,
                  successful_images, successful_filenames, progress_log,
                  errors, opened, removed >>

Next ==
  \/ SingleNoFile
  \/ SingleOpen
  \/ SingleProcess
  \/ BatchTab
  \/ LoopProgress
  \/ LoopBody
  \/ FilterSuccessful
  \/ Package

Spec == Init /\ [][Next]_vars


\* ---- vocabulary of the properties ----
N == Len(uploaded_files)
Finished == Len(processed_images)

\* the batch loop has been left and the success filter has run
Filtered == clicked /\ pc \in {"package", "done", "uncaught"}

\* calls of remove made by the batch loop
BatchCalls == { k \in 1..Len(removed) : removed[k].idx >= 0 }

\* item idx (0-based) went through decode and removal without an exception
Succeeded(idx) == \E k \in BatchCalls : removed[k].idx = idx /\ removed[k].ret # Raise
RetOf(idx) == removed[CHOOSE k \in BatchCalls : removed[k].idx = idx].ret

OkIdx == { idx \in 0..(N - 1) : Succeeded(idx) }
FailIdx == { idx \in 0..(N - 1) : ~Succeeded(idx) }
AllFailed == OkIdx = {}

\* the elements of a finite set of integers in increasing order
RECURSIVE Ascending(_)
Ascending(S) ==
  IF S = {} THEN <<>>
  ELSE LET m == CHOOSE x \in S : \A y \in S : x <= y
       IN  <<m>> \o Ascending(S \ {m})

ZeroSignalled == \E k \in 1..Len(errors) : errors[k].kind = "zero"
ZipOffered == \E k \in 1..Len(downloads) : downloads[k].kind = "zip"

\* C1: failure isolation. Once the batch run has started, the decode
\* attempts made so far are exactly items 0..i-1, one each and in index
\* order; the remover is called at most once per item, in index order and
\* only on items already decoded; and when the loop has been left every
\* item 0..N-1 has been attempted, whatever failed before it.
C1_FailureIsolation ==
  clicked =>
    /\ opened = [k \in 1..Len(opened) |-> k - 1]
    /\ Len(opened) = i
    /\ \A a, b \in BatchCalls : a < b => removed[a].idx < removed[b].idx
    /\ \A a \in BatchCalls : removed[a].idx < Len(opened)
    /\ Filtered => Len(opened) = N

\* a three-item run whose first item failed and whose last item was still processed
C1_Witness ==
  /\ Filtered
  /\ N = 3
  /\ processed_images[1] = None
  /\ processed_images[3] # None
  /\ opened = <<0, 1, 2>>

\* C2: partition count. After the loop and the success filter,
\* len(successful_images) + len(failed_files) = len(uploaded_files); the
\* successes are as many as the items that succeeded and the failed names
\* as many as the items that failed, so no item is in both or in neither.
C2_PartitionCount ==
  Filtered =>
    /\ Len(successful_images) + Len(failed_files) = N
    /\ Len(successful_images) = Cardinality(OkIdx)
    /\ Len(failed_files) = Cardinality(FailIdx)

C2_Witness ==
  /\ Filtered
  /\ N = 3
  /\ Len(successful_images) = 2
  /\ Len(failed_files) = 1

\* C3: order preservation. After a batch run the successful filenames are
\* the input filenames of the items that succeeded, in input order, each
\* successful image is the one the remover returned for that very item,
\* and the failed names are the input filenames of the failed items, in
\* input order.
C3_OrderPreserved ==
  Filtered =>
    LET ok == Ascending(OkIdx)
        bad == Ascending(FailIdx)
    IN  /\ successful_filenames = [j \in 1..Len(ok) |-> uploaded_files[ok[j] + 1]]
        /\ successful_images = [j \in 1..Len(ok) |-> RetOf(ok[j])]
        /\ failed_files = [j \in 1..Len(bad) |-> uploaded_files[bad[j] + 1]]

\* inputs [A ok, B fail, C ok] with three different names and two different images
C3_Witness ==
  /\ Filtered
  /\ N = 3
  /\ OkIdx = {0, 2}
  /\ uploaded_files[1] # uploaded_files[3]
  /\ uploaded_files[2] # uploaded_files[1]
  /\ uploaded_files[2] # uploaded_files[3]
  /\ successful_images[1] # successful_images[2]
  /\ failed_files = <<uploaded_files[2]>>

\* C4: collision-free packaging. The archive built by create_zip_file has
\* one entry per success and its entry filenames are pairwise distinct.
C4_CollisionFree ==
  zip_buffer.built =>
    /\ Len(zip_buffer.entries) = Len(successful_images)
    /\ \A a, b \in 1..Len(zip_buffer.entries) :
         a # b => zip_buffer.entries[a].filename # zip_buffer.entries[b].filename

\* C5: all-failure case. The zero-successes error and a call of
\* create_zip_file never both happen; when every item failed the successes
\* are empty and create_zip_file is never called; and a completed batch
\* run has signalled zero successes (and offers no ZIP) if every item
\* failed, and has built and offered the archive otherwise.
C5_AllFailure ==
  /\ ~(ZeroSignalled /\ zip_called)
  /\ (Filtered /\ AllFailed) => (successful_images = <<>> /\ ~zip_called /\ ~ZipOffered)
  /\ (clicked /\ pc = "done") =>
       IF AllFailed
       THEN ZeroSignalled /\ ~zip_buffer.built
       ELSE zip_buffer.built /\ ZipOffered /\ ~ZeroSignalled

C5_Witness ==
  /\ clicked
  /\ pc = "done"
  /\ N = 3
  /\ AllFailed
  /\ ZeroSignalled
  /\ Len(removed) >= 1

\* C6: per-item error conversion. No decode, removal or encode error
\* leaves main() as an uncaught exception, in either tab.
C6_NoUncaught == pc # "uncaught"

\* C7 as stated: a run on an empty list ends with empty successes, empty
\* failed names and a built archive with zero entries.
C7_EmptyYieldsEmptyArchive ==
  (uploaded_files = <<>> /\ pc = "done") =>
    /\ successful_images = <<>>
    /\ failed_files = <<>>
    /\ zip_buffer.built
    /\ zip_buffer.entries = <<>>

\* C7 as amended: with an empty list the batch run never starts: nothing
\* is attempted or reported, no error is signalled and no archive is
\* built; the all-failure outcome differs from it by the zero-successes
\* error.
C7_EmptyInputSkipped ==
  /\ uploaded_files = <<>> =>
       /\ ~clicked
       /\ opened = <<>>
       /\ progress_log = <<>>
       /\ successful_images = <<>>
       /\ failed_files = <<>>
       /\ ~zip_called
       /\ ~zip_buffer.built
       /\ ~ZipOffered
       /\ \A k \in 1..Len(errors) : errors[k].kind = "single"
  /\ (clicked /\ pc = "done" /\ AllFailed) => (N >= 1 /\ ZeroSignalled)

C7_Witness == uploaded_files = <<>> /\ pc = "done"

\* C8 as stated: the completed-count last reported never exceeds the
\* number of items whose processing has finished.
C8_ReportedAfterCompletion ==
  progress_log # <<>> => progress_log[Len(progress_log)].count <= Finished

\* C8 as amended: the report carrying count k and the name of item k is
\* emitted before item k is processed, when exactly k-1 items have
\* finished: while item k is being processed the last report is (k, N,
\* name of item k) with k = finished + 1, at every other point of the run
\* as many reports as finished items exist, and no reported count ever
\* exceeds finished + 1.
C8_ReportedBeforeProcessing ==
  clicked =>
    /\ pc = "loop_body" =>
         /\ Len(progress_log) = Finished + 1
         /\ progress_log[Len(progress_log)].count = Finished + 1
         /\ progress_log[Len(progress_log)].name = uploaded_files[Finished + 1]
    /\ pc # "loop_body" => Len(progress_log) = Finished
    /\ \A k \in 1..Len(progress_log) : progress_log[k].count <= Finished + 1

\* item 2 has been announced, item 1 is the only one finished
C8_Witness ==
  /\ pc = "loop_body"
  /\ Finished = 1
  /\ Len(progress_log) = 2

\* C9: progress is monotone and complete. The k-th report carries count k,
\* total N and the name of the k-th input item, and once the loop has been
\* left exactly N reports have been made.
C9_ProgressMonotoneComplete ==
  clicked =>
    /\ \A k \in 1..Len(progress_log) :
         progress_log[k] = [count |-> k, total |-> N, name |-> uploaded_files[k]]
    /\ Len(progress_log) <= N
    /\ Filtered => Len(progress_log) = N

C9_Witness ==
  /\ Filtered
  /\ N = 3
  /\ Len(progress_log) = 3
  /\ Len(failed_files) = 2
  /\ uploaded_files[1] # uploaded_files[2]

\* C10 as stated: the remover is only called on RGB images and every
\* stored, downloadable or archived result has an alpha channel.
C10_AlwaysAlpha ==
  /\ \A k \in 1..Len(removed) : removed[k].arg = "RGB"
  /\ \A k \in 1..Len(processed_images) :
       processed_images[k] # None => HasAlpha(processed_images[k])
  /\ \A k \in 1..Len(downloads) :
       downloads[k].kind = "png" => HasAlpha(downloads[k].image)
  /\ \A k \in 1..Len(zip_buffer.entries) : HasAlpha(zip_buffer.entries[k].image)

\* C10 as amended: the remover is only called on RGB images, and the
\* image process_single_image returns is the remover's output unchanged:
\* every stored, downloadable or archived result has the mode the remover
\* returned for it, so it has an alpha channel exactly when the remover's
\* output has one.
C10_RgbInOutputUnchanged ==
  /\ \A k \in 1..Len(removed) : removed[k].arg = "RGB"
  /\ \A k \in BatchCalls :
       (removed[k].ret # Raise /\ removed[k].idx < Finished) =>
          processed_images[removed[k].idx + 1] = removed[k].ret
  /\ \A k \in 1..Len(downloads) :
       downloads[k].kind = "png" =>
          \E c \in 1..Len(removed) : removed[c].idx = -1 /\ removed[c].ret = downloads[k].image
  /\ \A k \in 1..Len(zip_buffer.entries) :
       /\ zip_buffer.entries[k].image = successful_images[k]
       /\ \E c \in BatchCalls : removed[c].ret = zip_buffer.entries[k].image

\* a palette image was converted, and the remover answered without alpha
C10_Witness ==
  /\ pc = "loop_head"
  /\ i >= 1
  /\ original_image = "P"
  /\ removed # <<>>
  /\ removed[Len(removed)] = [idx |-> i - 1, arg |-> "RGB", ret |-> "RGB"]
  /\ processed_images[i] = "RGB"

====
